---- MODULE Spec2Model ----
(***************************************************************************)
(* A model of latch_asgi's connection-level protocol adapter:              *)
(*   framework.py          receive_data, receive_websocket_data(_iter),    *)
(*                         accept/send/close of a websocket, send_http_data, *)
(*                         the typed receives and the error classes        *)
(*   context/websocket.py  WebsocketContext: construction, header cache,   *)
(*                         add_db_response, several contexts side by side  *)
(*                                                                         *)
(* Byte strings are sequences of numbers 0..255, Python str values are     *)
(* sequences of code points.  A value that may be a str, a bytes or None   *)
(* is a record [t, v] with t in {"str", "bytes", "none"}.                  *)
(***************************************************************************)
EXTENDS Integers, Sequences, FiniteSets, TLC

VARIABLES
    scopeType,   \* scope.type of the connection: "websocket" | "http"
    wsIn,        \* websocket events the gateway has delivered, in delivery order
    wsPos,       \* how many of them receive() has handed out
    wsOut,       \* events passed to send(), in emission order
    wsOutSess,   \* session state (section 3 of the spec) at each emission
    wsRes,       \* outcome of the last websocket call
    wsPrev,      \* outcome of the websocket call before that one
    wsCall,      \* that call's argument, and Len(wsOut) and wsPos when it began
    wsSpan,      \* attributes set on the websocket request span
    session,     \* session state of section 3, tracked from the calls' effects
    itState,     \* "none" | "running" | "done" | "failed": the async generator
    itYield,     \* the payloads the current generator has yielded
    itStart,     \* wsPos when the current generator was made
    httpIn,      \* HTTP events the gateway has delivered
    httpPos,     \* how many of them receive() has handed out
    rdPc,        \* receive_data: "idle" | "loop" | "returned" | "raised"
    rdRes,       \* receive_data: res
    rdMore,      \* receive_data: more_body
    rdStart,     \* httpPos when the current receive_data call began
    httpRes,     \* outcome of the last HTTP receive call
    clsArg,      \* receive_class_ext: the cls argument of the call in progress / last made
    httpSpan,    \* attributes set on the HTTP request span (-1: not set)
    httpOut,     \* HTTP events passed to send(), in emission order
    sdPc,        \* send_http_data: "idle" | "body"
    sdArgs,      \* arguments of the send_http_data call in progress / last made
    sdStart,     \* Len(httpOut) when that call began
    sdDone,      \* number of completed send_http_data calls
    hdrList,     \* scope.headers: list of (name, value) pairs
    hdrCache,    \* _header_cache, a set of <<name, value>> with unique names
    hdrLast,     \* the last call of header(): its key, result, and its scan
    hdrPrev,     \* the call of header() before that one
    ctxState,    \* "new" | "ready" | "failed": __post_init__ not run, returned, raised
    auth,        \* WebsocketContext.auth
    signerArg,   \* what get_signer_sub was called with (None: it was not called)
    dbIdx,       \* WebsocketContext._db_response_idx
    dbSpan,      \* what add_request_span_attrs was called with, in call order
    cx,          \* several contexts: the attributes of each WebsocketContext instance
    heap,        \* several contexts: the dict objects made for _header_cache
    solo,        \* several contexts: each context had it run its calls with no other
    errLog       \* the error values constructed, in construction order

wsVars   == <<wsIn, wsPos, wsOut, wsOutSess, wsRes, wsPrev, wsCall, wsSpan, session,
              itState, itYield, itStart>>
rdVars   == <<httpIn, httpPos, rdPc, rdRes, rdMore, rdStart, httpRes>>
sdVars   == <<httpOut, sdPc, sdArgs, sdStart, sdDone>>
dbVars   == <<dbIdx, dbSpan>>
twoVars  == <<cx, heap, solo>>
ctxVars  == <<hdrList, hdrCache, hdrLast, hdrPrev, ctxState, auth, signerArg, dbVars,
              twoVars>>
vars     == <<scopeType, errLog, wsVars, rdVars, clsArg, httpSpan, sdVars, ctxVars>>

\* what an action on one connection or context leaves alone
notWs    == <<scopeType, errLog, rdVars, clsArg, httpSpan, sdVars, ctxVars>>
notRd    == <<scopeType, errLog, wsVars, clsArg, sdVars, ctxVars>>
notSd    == <<scopeType, errLog, wsVars, rdVars, clsArg, ctxVars>>
notCtx   == <<scopeType, errLog, wsVars, rdVars, clsArg, httpSpan, sdVars, twoVars>>
notTwo   == <<scopeType, errLog, wsVars, rdVars, clsArg, httpSpan, sdVars,
              hdrList, hdrCache, hdrLast, hdrPrev, ctxState, auth, signerArg, dbVars>>

---------------------------------------------------------------------------
(* Bounds of the model *)
MaxWsEvents   == 2
MaxWsOut      == 2
MaxIterEvents == 3
MaxHttpEvents == 3
MaxSends      == 2
MaxHdrs       == 3
MaxDbCalls    == 3
MaxErrs       == 2

---------------------------------------------------------------------------
(* Values *)
None      == [t |-> "none", v |-> <<>>]
Str(s)    == [t |-> "str", v |-> s]
Bytes(b)  == [t |-> "bytes", v |-> b]

\* The str inputs are made of the code points 65 ("A") and 233 (e acute: one
\* byte in Latin-1, two bytes, 195 169, in UTF-8).

RECURSIVE Flatten(_)
Flatten(ss) == IF ss = <<>> THEN <<>> ELSE Head(ss) \o Flatten(Tail(ss))

\* str.encode("utf-8") of one code point (below 0x10000, no surrogates)
Utf8Char(c) ==
    IF c < 128 THEN <<c>>
    ELSE IF c < 2048 THEN <<192 + (c \div 64), 128 + (c % 64)>>
    ELSE <<224 + (c \div 4096), 128 + ((c \div 64) % 64), 128 + (c % 64)>>

EncodeUtf8(s) == Flatten([i \in DOMAIN s |-> Utf8Char(s[i])])

\* str.encode("latin-1"): one byte per code point (code points below 256)
EncodeLatin1(s) == [i \in DOMAIN s |-> s[i]]

\* "if isinstance(x, str): x = x.encode(...)"
ToBytesUtf8(x)   == IF x.t = "str" THEN EncodeUtf8(x.v) ELSE x.v

\* (mutant) header strings encoded as UTF-8
ToBytesLatin1AsUtf8(x) == IF x.t = "str" THEN EncodeUtf8(x.v) ELSE x.v

ToBytesLatin1(x) == IF x.t = "str" THEN EncodeLatin1(x.v) ELSE x.v

\* the loop "for k, v in headers.items(): ... headers_to_send.append((k, v))"
\* over a dict given as its item list in insertion order
EncodeHeaders(headers) ==
    [i \in DOMAIN headers |->
        <<ToBytesLatin1(headers[i][1]), ToBytesLatin1(headers[i][2])>>]

\* outcomes of a call
Return(op, val) ==
    [op |-> op, kind |-> "return", exc |-> "", data |-> "", val |-> val]
Raise(op, exc, data) ==
    [op |-> op, kind |-> "raise", exc |-> exc, data |-> data, val |-> None]
NoCall ==
    [op |-> "", kind |-> "none", exc |-> "", data |-> "", val |-> None]

---------------------------------------------------------------------------
(* Error classes *)
ErrorClasses ==
    { "HTTPErrorResponse", "HTTPInternalServerError", "HTTPBadRequest",
      "HTTPForbidden", "HTTPConnectionClosedError",
      "WebsocketErrorResponse", "WebsocketConnectionClosedError",
      "WebsocketBadMessage", "WebsocketInternalServerError" }

\* "class C(B)"
BaseOf(c) ==
    CASE c = "HTTPErrorResponse"              -> "RuntimeError"
      [] c = "HTTPInternalServerError"        -> "HTTPErrorResponse"
      [] c = "HTTPBadRequest"                 -> "HTTPErrorResponse"
      [] c = "HTTPForbidden"                  -> "HTTPErrorResponse"
      [] c = "HTTPConnectionClosedError"      -> "RuntimeError"
      [] c = "WebsocketErrorResponse"         -> "HTTPErrorResponse"
      [] c = "WebsocketConnectionClosedError" -> "RuntimeError"
      [] c = "WebsocketBadMessage"            -> "WebsocketErrorResponse"
      [] c = "WebsocketInternalServerError"   -> "WebsocketErrorResponse"
      [] OTHER                                -> "BaseException"

\* issubclass(c, b)
RECURSIVE IsSubclass(_, _)
IsSubclass(c, b) ==
    IF c = b THEN TRUE
    ELSE IF c \notin ErrorClasses THEN FALSE
    ELSE IsSubclass(BaseOf(c), b)

\* (mutant) every response error class passes 500 to HTTPErrorResponse
InitStatusAlways500(c, status) ==
    IF c \in { "HTTPErrorResponse", "WebsocketErrorResponse" } THEN status ELSE 500

\* the status that c.__init__ passes on to HTTPErrorResponse.__init__;
\* HTTPErrorResponse and WebsocketErrorResponse take it as their argument
InitStatus(c, status) ==
    CASE c = "HTTPInternalServerError"      -> 500
      [] c = "HTTPBadRequest"               -> 400
      [] c = "HTTPForbidden"                -> 403
      [] c = "WebsocketBadMessage"          -> 400
      [] c = "WebsocketInternalServerError" -> 500
      [] OTHER                              -> status

\* the attributes of a new instance of class c: those that
\* HTTPErrorResponse.__init__ sets, or none for the RuntimeError subclasses
NewError(c, status, data, headers) ==
    IF IsSubclass(c, "HTTPErrorResponse")
    THEN [cls |-> c, attrs |-> {"status", "data", "headers"},
          status |-> InitStatus(c, status), data |-> data, headers |-> headers]
    ELSE [cls |-> c, attrs |-> {}, status |-> 0, data |-> "", headers |-> <<>>]

\* arguments of the constructors
ErrStatusArgs  == { 404, 500 }
ErrDataArgs    == { "x", "y" }
ErrHeadersArgs == { <<>>, << <<Str(<<65>>), Str(<<65>>)>> >> }

InitErr == errLog = <<>>

\* "C(status, data, headers=headers)" for the two classes that take a
\* status, "C(data, headers=headers)" for their subclasses, "C()" for the
\* connection-closed errors
ConstructError(c, status, data, headers) ==
    /\ Len(errLog) < MaxErrs
    /\ errLog' = Append(errLog, NewError(c, status, data, headers))
    /\ UNCHANGED <<scopeType, wsVars, rdVars, clsArg, httpSpan, sdVars, ctxVars>>

---------------------------------------------------------------------------
(* Websocket: inbound events, as the gateway may deliver them *)
WsConnect     == [type |-> "websocket.connect", bytes |-> None, text |-> None]
WsDisconnect  == [type |-> "websocket.disconnect", bytes |-> None, text |-> None]
WsReceive(b, t) == [type |-> "websocket.receive", bytes |-> b, text |-> t]

WsEvents ==
    { WsConnect, WsDisconnect,
      WsReceive(Bytes(<<65>>), None),         \* binary frame
      WsReceive(Bytes(<<>>), Str(<<233>>)),    \* empty bytes and a text
      WsReceive(None, Str(<<233>>)),           \* text frame
      WsReceive(None, None) }                  \* neither

\* the gateway puts one more event in the connection's receive queue
WsDeliver(max, ev) ==
    /\ scopeType = "websocket"
    /\ Len(wsIn) < max
    /\ wsIn' = Append(wsIn, ev)
    /\ UNCHANGED <<wsPos, wsOut, wsOutSess, wsRes, wsPrev, wsCall, wsSpan, session,
                   itState, itYield, itStart>>
    /\ UNCHANGED notWs

\* "await receive()" returns the next undelivered event; it suspends while
\* there is none
WsCanReceive == wsPos < Len(wsIn)

\* (mutant) receive() hands out the event delivered last
WsNextMsgNewest == wsIn[Len(wsIn)]

WsNextMsg    == wsIn[wsPos + 1]

CallRecord(arg) == [arg |-> arg, outBefore |-> Len(wsOut), posBefore |-> wsPos]

\* session state of the spec's section 3, followed from what a call did
SessionAfter(s, msgType, accepted, closed) ==
    IF s = "Closed" THEN "Closed"
    ELSE IF msgType = "websocket.disconnect" \/ closed THEN "Closed"
    ELSE IF accepted THEN "Open"
    ELSE s

\* (mutant) the text of a message is looked at before its bytes
ReceiveWebsocketDataTextFirst(op, msg) ==
    IF msg.type = "websocket.connect"
    THEN Raise(op, "WebsocketBadMessage", "connection has already been established")
    ELSE IF msg.type = "websocket.disconnect"
    THEN Raise(op, "WebsocketConnectionClosedError", "")
    ELSE IF msg.text.t # "none"
    THEN Return(op, EncodeUtf8(msg.text.v))
    ELSE IF msg.bytes.t # "none"
    THEN Return(op, msg.bytes.v)
    ELSE Raise(op, "WebsocketBadMessage", "empty message")

\* outcome of the body of receive_websocket_data on the event msg
ReceiveWebsocketDataOutcome(op, msg) ==
    IF msg.type = "websocket.connect"
    THEN Raise(op, "WebsocketBadMessage", "connection has already been established")
    ELSE IF msg.type = "websocket.disconnect"
    THEN Raise(op, "WebsocketConnectionClosedError", "")
    ELSE IF msg.bytes.t # "none"
    THEN Return(op, msg.bytes.v)
    ELSE IF msg.text.t # "none"
    THEN Return(op, EncodeUtf8(msg.text.v))
    ELSE Raise(op, "WebsocketBadMessage", "empty message")

\* receive_websocket_data(receive)
ReceiveWebsocketData ==
    /\ WsCanReceive
    /\ wsPos' = wsPos + 1
    /\ wsRes' = ReceiveWebsocketDataOutcome("receive_websocket_data", WsNextMsg)
    /\ wsPrev' = wsRes
    /\ wsCall' = CallRecord(None)
    /\ session' = SessionAfter(session, WsNextMsg.type, FALSE, FALSE)
    /\ UNCHANGED <<wsIn, wsOut, wsOutSess, wsSpan, itState, itYield, itStart>>
    /\ UNCHANGED notWs

\* arguments of accept_websocket_connection; headers is a dict, given as its
\* items in insertion order
AcceptArgs ==
    { [subprotocol |-> None, headers |-> <<>>],
      [subprotocol |-> Str(<<65>>),
       headers |-> << <<Str(<<233>>), Bytes(<<65>>)>>,
                      <<Bytes(<<65>>), Str(<<233, 65>>)>> >>] }

WebsocketAcceptEvent(subprotocol, headers) ==
    [type |-> "websocket.accept", subprotocol |-> subprotocol, headers |-> headers]

\* accept_websocket_connection(send, receive, subprotocol=, headers=)
AcceptWebsocketConnection(a) ==
    /\ WsCanReceive
    /\ wsPos' = wsPos + 1
    /\ wsPrev' = wsRes
    /\ wsCall' = CallRecord(a)
    /\ IF WsNextMsg.type # "websocket.connect"
       THEN /\ wsRes' = Raise("accept_websocket_connection", "WebsocketBadMessage",
                              "cannot accept connection without connection request")
            /\ session' = SessionAfter(session, WsNextMsg.type, FALSE, FALSE)
            /\ UNCHANGED <<wsOut, wsOutSess>>
       ELSE /\ Len(wsOut) < MaxWsOut
            /\ wsOut' = Append(wsOut,
                    WebsocketAcceptEvent(a.subprotocol, EncodeHeaders(a.headers)))
            /\ wsOutSess' = Append(wsOutSess, session)
            /\ wsRes' = Return("accept_websocket_connection", <<>>)
            /\ session' = SessionAfter(session, WsNextMsg.type, TRUE, FALSE)
    /\ UNCHANGED <<wsIn, wsSpan, itState, itYield, itStart>>
    /\ UNCHANGED notWs

WebsocketSendEvent(b, t) == [type |-> "websocket.send", bytes |-> b, text |-> t]

SendArgs == { Bytes(<<65>>), Str(<<233>>) }

\* send_websocket_data(send, data)
SendWebsocketData(data) ==
    /\ Len(wsOut) < MaxWsOut
    /\ wsOut' = Append(wsOut, WebsocketSendEvent(Bytes(ToBytesUtf8(data)), None))
    /\ wsOutSess' = Append(wsOutSess, session)
    /\ wsSpan' = [wsSpan EXCEPT !.sent = Len(ToBytesUtf8(data))]
    /\ wsRes' = Return("send_websocket_data", <<>>)
    /\ wsPrev' = wsRes
    /\ wsCall' = CallRecord(data)
    /\ UNCHANGED <<wsIn, wsPos, session, itState, itYield, itStart>>
    /\ UNCHANGED notWs

WebsocketCloseEvent(code, reason) ==
    [type |-> "websocket.close", code |-> code, reason |-> reason]

\* WebsocketStatus values used by callers (asgi_iface)
CloseArgs == { [status |-> 1000, data |-> <<65>>], [status |-> 1011, data |-> <<233>>] }

\* close_websocket_connection(send, status=, data=)
CloseWebsocketConnection(c) ==
    /\ Len(wsOut) < MaxWsOut
    /\ wsOut' = Append(wsOut, WebsocketCloseEvent(c.status, c.data))
    /\ wsOutSess' = Append(wsOutSess, session)
    /\ wsSpan' = [wsSpan EXCEPT !.close_reason = Str(c.data)]
    /\ wsRes' = Return("close_websocket_connection", <<>>)
    /\ wsPrev' = wsRes
    /\ wsCall' = CallRecord(c)
    /\ session' = SessionAfter(session, "", FALSE, TRUE)
    /\ UNCHANGED <<wsIn, wsPos, itState, itYield, itStart>>
    /\ UNCHANGED notWs

\* receive_websocket_data_iter(receive): calling it makes a new generator
\* object and runs none of its body
ReceiveWebsocketDataIter ==
    /\ itState' = "running"
    /\ itYield' = <<>>
    /\ itStart' = wsPos
    /\ wsRes' = Return("receive_websocket_data_iter", <<>>)
    /\ wsPrev' = wsRes
    /\ wsCall' = CallRecord(None)
    /\ UNCHANGED <<wsIn, wsPos, wsOut, wsOutSess, wsSpan, session>>
    /\ UNCHANGED notWs

\* (mutant) the generator catches every exception of receive_websocket_data
IterNextOutcomeCatchAll(msg) ==
    LET r == ReceiveWebsocketDataOutcome("__anext__", msg) IN
    IF r.kind = "return" THEN r
    ELSE Raise("__anext__", "StopAsyncIteration", "")

\* (mutant) the generator does not catch WebsocketConnectionClosedError
IterNextOutcomeNoCatch(msg) == ReceiveWebsocketDataOutcome("__anext__", msg)

\* one __anext__() of the generator: one turn of "while True", up to the
\* yield, the break or the exception that leaves it
IterNextOutcome(msg) ==
    LET r == ReceiveWebsocketDataOutcome("__anext__", msg) IN
    IF r.kind = "return" THEN r
    ELSE IF r.exc = "WebsocketConnectionClosedError"
    THEN Raise("__anext__", "StopAsyncIteration", "")
    ELSE r

IterNext ==
    /\ itState = "running"
    /\ WsCanReceive
    /\ wsPos' = wsPos + 1
    /\ wsRes' = IterNextOutcome(WsNextMsg)
    /\ wsPrev' = wsRes
    /\ wsCall' = CallRecord(None)
    /\ itYield' = IF wsRes'.kind = "return" THEN Append(itYield, wsRes'.val)
                  ELSE itYield
    /\ itState' = IF wsRes'.kind = "return" THEN "running"
                  ELSE IF wsRes'.exc = "StopAsyncIteration" THEN "done"
                  ELSE "failed"
    /\ session' = SessionAfter(session, WsNextMsg.type, FALSE, FALSE)
    /\ UNCHANGED <<wsIn, wsOut, wsOutSess, wsSpan, itStart>>
    /\ UNCHANGED notWs

\* __anext__() of a generator that has finished (by the break or by an
\* exception): StopAsyncIteration, and no part of the body runs
IterNextFinished ==
    /\ itState \in {"done", "failed"}
    /\ wsRes' = Raise("__anext__", "StopAsyncIteration", "")
    /\ wsPrev' = wsRes
    /\ wsCall' = CallRecord(None)
    /\ UNCHANGED <<wsIn, wsPos, wsOut, wsOutSess, wsSpan, session, itState, itYield,
                   itStart>>
    /\ UNCHANGED notWs

---------------------------------------------------------------------------
(* HTTP request body *)
HttpRequest(body, more) == [type |-> "http.request", body |-> body, more_body |-> more]
HttpDisconnect          == [type |-> "http.disconnect", body |-> <<>>, more_body |-> FALSE]

ChunkBodies == { <<>>, <<65>>, <<66>> }

HttpEvents ==
    { HttpRequest(b, m) : b \in ChunkBodies, m \in BOOLEAN } \cup { HttpDisconnect }

\* the gateway puts one more event in the connection's receive queue
HttpDeliver(ev) ==
    /\ scopeType = "http"
    /\ Len(httpIn) < MaxHttpEvents
    /\ httpIn' = Append(httpIn, ev)
    /\ UNCHANGED <<httpPos, rdPc, rdRes, rdMore, rdStart, httpRes, httpSpan>>
    /\ UNCHANGED notRd

HttpCanReceive == httpPos < Len(httpIn)
HttpNextMsg    == httpIn[httpPos + 1]

\* receive_data(receive), up to the first "await receive()"
ReceiveDataCall ==
    /\ scopeType = "http"
    /\ rdPc # "loop"
    /\ rdPc' = "loop"
    /\ rdRes' = <<>>
    /\ rdMore' = TRUE
    /\ rdStart' = httpPos
    /\ httpRes' = NoCall
    /\ UNCHANGED <<httpIn, httpPos, httpSpan>>
    /\ UNCHANGED notRd

\* (mutant) the chunk is put in front of what was read
AddChunkInFront(res, body) == body \o res

\* "res += msg.body"
AddChunk(res, body) == res \o body

\* "more_body = msg.more_body" and the loop test "while more_body"
LoopAgain(msg) == msg.more_body

\* (mutant) a disconnect ends the body: what was read so far is returned
ReceiveDataChunkPartial ==
    /\ rdPc = "loop"
    /\ HttpCanReceive
    /\ httpPos' = httpPos + 1
    /\ IF HttpNextMsg.type = "http.disconnect"
       THEN /\ rdPc' = "returned"
            /\ httpRes' = Return("receive_data", rdRes)
            /\ UNCHANGED <<rdRes, rdMore, httpSpan>>
       ELSE /\ rdRes' = AddChunk(rdRes, HttpNextMsg.body)
            /\ rdMore' = LoopAgain(HttpNextMsg)
            /\ IF rdMore'
               THEN /\ rdPc' = "loop"
                    /\ UNCHANGED <<httpRes, httpSpan>>
               ELSE /\ rdPc' = "returned"
                    /\ httpSpan' = [httpSpan EXCEPT !.request_content_length = Len(rdRes')]
                    /\ httpRes' = Return("receive_data", rdRes')
    /\ UNCHANGED <<httpIn, rdStart>>
    /\ UNCHANGED notRd

\* one turn of the loop of receive_data, from the return of "await receive()"
\* to the next one, to the raise or to the return
ReceiveDataChunk ==
    /\ rdPc = "loop"
    /\ HttpCanReceive
    /\ httpPos' = httpPos + 1
    /\ IF HttpNextMsg.type = "http.disconnect"
       THEN /\ rdPc' = "raised"
            /\ httpRes' = Raise("receive_data", "HTTPConnectionClosedError", "")
            /\ UNCHANGED <<rdRes, rdMore, httpSpan>>
       ELSE /\ rdRes' = AddChunk(rdRes, HttpNextMsg.body)
            /\ rdMore' = LoopAgain(HttpNextMsg)
            /\ IF rdMore'
               THEN /\ rdPc' = "loop"
                    /\ UNCHANGED <<httpRes, httpSpan>>
               ELSE /\ rdPc' = "returned"
                    /\ httpSpan' = [httpSpan EXCEPT !.request_content_length = Len(rdRes')]
                    /\ httpRes' = Return("receive_data", rdRes')
    /\ UNCHANGED <<httpIn, rdStart>>
    /\ UNCHANGED notRd

---------------------------------------------------------------------------
(* HTTP response *)
RECURSIVE DecimalStr(_)
\* str(n) for n >= 0, as code points
DecimalStr(n) ==
    IF n < 10 THEN <<48 + n>> ELSE DecimalStr(n \div 10) \o <<48 + (n % 10)>>

bContentLength   == <<67, 111, 110, 116, 101, 110, 116, 45, 76, 101, 110, 103, 116, 104>>    \* b"Content-Length"
bContentType     == <<67, 111, 110, 116, 101, 110, 116, 45, 84, 121, 112, 101>>    \* b"Content-Type"
sTextPlain       == <<116, 101, 120, 116, 47, 112, 108, 97, 105, 110>>    \* "text/plain"
sApplicationJson == <<97, 112, 112, 108, 105, 99, 97, 116, 105, 111, 110, 47, 106, 115, 111, 110>>    \* "application/json"

HTTPResponseStartEvent(status, headers) ==
    [type |-> "http.response.start", status |-> status, headers |-> headers]
HTTPResponseBodyEvent(body, more) ==
    [type |-> "http.response.body", body |-> body, more_body |-> more]

\* "(b"Content-Length", str(len(data)).encode("latin-1"))"
ContentLengthHeader(data) == <<bContentLength, EncodeLatin1(DecimalStr(Len(data)))>>

\* (mutant) the caller's headers are put before Content-Length
HeadersToSendCallerFirst(data, content_type, headers) ==
    EncodeHeaders(headers)
    \o << ContentLengthHeader(data) >>
    \o (IF content_type.t # "none"
        THEN << <<bContentType, ToBytesLatin1(content_type)>> >>
        ELSE <<>>)

\* headers_to_send of send_http_data; data is the body as bytes
HeadersToSend(data, content_type, headers) ==
    << ContentLengthHeader(data) >>
    \o EncodeHeaders(headers)
    \o (IF content_type.t # "none"
        THEN << <<bContentType, ToBytesLatin1(content_type)>> >>
        ELSE <<>>)

\* send_http_data(send, status, data, content_type=, headers=), up to the
\* return of the first "await send(...)"; op and arg say which function the
\* handler called and with what data
SendHttpDataStart(op, arg, status, data, content_type, headers) ==
    /\ sdPc = "idle"
    /\ sdDone < MaxSends
    /\ httpOut' = Append(httpOut,
            HTTPResponseStartEvent(status,
                HeadersToSend(ToBytesUtf8(data), content_type, headers)))
    /\ sdPc' = "body"
    /\ sdArgs' = [op |-> op, status |-> status, arg |-> arg, data |-> ToBytesUtf8(data),
                  content_type |-> content_type, headers |-> headers]
    /\ sdStart' = Len(httpOut)
    /\ UNCHANGED <<sdDone, httpSpan>>
    /\ UNCHANGED notSd

\* the rest of send_http_data: the second "await send(...)" and the span
\* attribute
SendHttpDataBody ==
    /\ sdPc = "body"
    /\ httpOut' = Append(httpOut, HTTPResponseBodyEvent(sdArgs.data, FALSE))
    /\ httpSpan' = [httpSpan EXCEPT !.response_content_length = Len(sdArgs.data)]
    /\ sdPc' = "idle"
    /\ sdDone' = sdDone + 1
    /\ UNCHANGED <<sdArgs, sdStart>>
    /\ UNCHANGED notSd

Statuses == { 200, 404 }

\* str and bytes payloads; the last one is ten bytes long
TextData == { Bytes(<<>>), Str(<<233>>), Bytes(<<65, 65, 65, 65, 65, 65, 65, 65, 65, 65>>) }

ContentTypeArgs == { None, Str(sTextPlain) }

\* headers argument, a dict given as its items
HeaderArgs ==
    { <<>>,
      << <<Str(bContentLength), Str(<<48>>)>> >>,
      << <<Bytes(<<88>>), Str(<<233>>)>>, <<Str(bContentType), Bytes(<<65>>)>> >> }

SendHttpData(status, data, content_type, headers) ==
    SendHttpDataStart("send_http_data", data, status, data, content_type, headers)

\* values that are neither str nor bytes: integers and JSON strings
JsonData == { [t |-> "int", v |-> 1], [t |-> "int", v |-> 12], [t |-> "jstr", v |-> <<233>>] }

\* orjson.dumps on these values: compact, UTF-8
Dumps(x) ==
    IF x.t = "int" THEN EncodeLatin1(DecimalStr(x.v))
    ELSE <<34>> \o EncodeUtf8(x.v) \o <<34>>

\* send_json(send, status, data, content_type=, headers=)
SendJson(op, status, data, content_type, headers) ==
    SendHttpDataStart(op, data, status, Bytes(Dumps(data)), content_type, headers)

\* send_auto(send, status, data, headers=)
SendAuto(status, data, headers) ==
    IF data.t \in {"str", "bytes"}
    THEN SendHttpDataStart("send_auto", data, status, data, Str(sTextPlain), headers)
    ELSE SendJson("send_auto", status, data, Str(sApplicationJson), headers)

---------------------------------------------------------------------------
(* Typed receives: read, parse, validate *)

\* The JSON documents of the model are integers and strings of ASCII
\* letters; every other body of the model is not a JSON document.
IsJsonInt(b) ==
    /\ b # <<>>
    /\ \A i \in DOMAIN b : b[i] \in 48 .. 57
    /\ Len(b) > 1 => b[1] # 48
IsJsonStr(b) ==
    /\ Len(b) >= 2
    /\ b[1] = 34
    /\ b[Len(b)] = 34
    /\ \A i \in 2 .. Len(b) - 1 : b[i] \in 65 .. 122 /\ b[i] # 92

RECURSIVE IntOf(_)
IntOf(b) == IF b = <<>> THEN 0 ELSE 10 * IntOf(SubSeq(b, 1, Len(b) - 1)) + (b[Len(b)] - 48)

\* simdjson.Parser().parse(res, True): the value, or ValueError
Parse(b) ==
    IF IsJsonInt(b) THEN [ok |-> TRUE, val |-> [t |-> "int", v |-> IntOf(b)]]
    ELSE IF IsJsonStr(b)
    THEN [ok |-> TRUE, val |-> [t |-> "jstr", v |-> SubSeq(b, 2, Len(b) - 1)]]
    ELSE [ok |-> FALSE, val |-> None]

\* the classes a handler validates against
Classes == { "int", "str" }

\* validate(data, cls) of latch_data_validation: the value as an instance of
\* cls, or DataValidationError, whose json() names what was expected
Validate(data, cls) ==
    IF (cls = "int" /\ data.t = "int") \/ (cls = "str" /\ data.t = "jstr")
    THEN [ok |-> TRUE, val |-> [cls |-> cls, v |-> data.v], json |-> ""]
    ELSE [ok |-> FALSE, val |-> None,
          json |-> IF cls = "int" THEN "{\"expected\": \"int\"}"
                   ELSE "{\"expected\": \"str\"}"]

\* receive_json, from the outcome r of its "await receive_data(receive)"
ReceiveJson(op, r) ==
    IF r.kind = "raise" THEN [r EXCEPT !.op = op]
    ELSE IF Parse(r.val).ok THEN Return(op, Parse(r.val).val)
    ELSE Raise(op, "HTTPBadRequest", "Failed to parse JSON")

\* receive_class_ext, from the outcome j of its "await receive_json(receive)"
ReceiveClassExt(op, j, cls) ==
    IF j.kind = "raise" THEN [j EXCEPT !.op = op]
    ELSE IF Validate(j.val, cls).ok
    THEN Return(op, <<j.val, Validate(j.val, cls).val>>)
    ELSE Raise(op, "HTTPBadRequest", Validate(j.val, cls).json)

\* (mutant) the parse failure is reported with the HTTP error class
ReceiveWebsocketJsonHttpError(op, r) ==
    IF r.kind = "raise" THEN [r EXCEPT !.op = op]
    ELSE IF Parse(r.val).ok THEN Return(op, Parse(r.val).val)
    ELSE Raise(op, "HTTPBadRequest", "Failed to parse JSON")

\* receive_websocket_json, from the outcome r of its
\* "await receive_websocket_data(receive)"
ReceiveWebsocketJson(op, r) ==
    IF r.kind = "raise" THEN [r EXCEPT !.op = op]
    ELSE IF Parse(r.val).ok THEN Return(op, Parse(r.val).val)
    ELSE Raise(op, "WebsocketBadMessage", "Failed to parse JSON")

\* receive_websocket_class_ext, from the outcome j of its
\* "await receive_websocket_json(receive)"
ReceiveWebsocketClassExtOutcome(op, j, cls) ==
    IF j.kind = "raise" THEN [j EXCEPT !.op = op]
    ELSE IF Validate(j.val, cls).ok
    THEN Return(op, <<j.val, Validate(j.val, cls).val>>)
    ELSE Raise(op, "WebsocketBadMessage", Validate(j.val, cls).json)

\* request bodies arrive in these chunks: 1, "A and "
ClassChunkBodies == { <<49>>, <<34, 65>>, <<34>> }

ClassHttpEvents ==
    { HttpRequest(b, m) : b \in ClassChunkBodies, m \in BOOLEAN } \cup { HttpDisconnect }

ClassWsEvents ==
    { WsConnect, WsDisconnect,
      WsReceive(Bytes(<<49>>), None),            \* 1
      WsReceive(None, Str(<<34, 65, 34>>)),      \* "A"
      WsReceive(Bytes(<<34, 65>>), None),        \* "A
      WsReceive(None, None) }

\* receive_class_ext(receive, cls), up to the first "await receive()"
ReceiveClassExtCall(cls) ==
    /\ scopeType = "http"
    /\ rdPc \notin { "loop", "class_loop" }
    /\ rdPc' = "class_loop"
    /\ clsArg' = cls
    /\ rdRes' = <<>>
    /\ rdMore' = TRUE
    /\ rdStart' = httpPos
    /\ httpRes' = NoCall
    /\ UNCHANGED <<httpIn, httpPos, httpSpan>>
    /\ UNCHANGED <<scopeType, errLog, wsVars, sdVars, ctxVars>>

\* receive_class_ext: one turn of the loop of receive_data and, when that
\* returns or raises, the rest of receive_json and of receive_class_ext
ReceiveClassExtChunk ==
    /\ rdPc = "class_loop"
    /\ HttpCanReceive
    /\ httpPos' = httpPos + 1
    /\ IF HttpNextMsg.type = "http.disconnect"
       THEN /\ rdPc' = "raised"
            /\ httpRes' = ReceiveClassExt("receive_class_ext",
                              ReceiveJson("receive_json",
                                  Raise("receive_data", "HTTPConnectionClosedError", "")),
                              clsArg)
            /\ UNCHANGED <<rdRes, rdMore, httpSpan>>
       ELSE /\ rdRes' = AddChunk(rdRes, HttpNextMsg.body)
            /\ rdMore' = LoopAgain(HttpNextMsg)
            /\ IF rdMore'
               THEN /\ rdPc' = "class_loop"
                    /\ UNCHANGED <<httpRes, httpSpan>>
               ELSE /\ httpSpan' = [httpSpan EXCEPT !.request_content_length = Len(rdRes')]
                    /\ httpRes' = ReceiveClassExt("receive_class_ext",
                                      ReceiveJson("receive_json",
                                          Return("receive_data", rdRes')),
                                      clsArg)
                    /\ rdPc' = IF httpRes'.kind = "raise" THEN "raised" ELSE "returned"
    /\ UNCHANGED <<httpIn, rdStart, clsArg>>
    /\ UNCHANGED <<scopeType, errLog, wsVars, sdVars, ctxVars>>

\* receive_websocket_class_ext(receive, cls)
ReceiveWebsocketClassExt(cls) ==
    /\ WsCanReceive
    /\ wsPos' = wsPos + 1
    /\ wsRes' = ReceiveWebsocketClassExtOutcome("receive_websocket_class_ext",
                    ReceiveWebsocketJson("receive_websocket_json",
                        ReceiveWebsocketDataOutcome("receive_websocket_data", WsNextMsg)),
                    cls)
    /\ wsPrev' = wsRes
    /\ wsCall' = CallRecord(Str(cls))
    /\ session' = SessionAfter(session, WsNextMsg.type, FALSE, FALSE)
    /\ UNCHANGED <<wsIn, wsOut, wsOutSess, wsSpan, itState, itYield, itStart>>
    /\ UNCHANGED notWs

---------------------------------------------------------------------------
(* WebsocketContext: header lookup and construction *)
bAuthorization == <<97, 117, 116, 104, 111, 114, 105, 122, 97, 116, 105, 111, 110>>    \* b"authorization"

\* position of the first entry of the list named x, Len + 1 when there is none
RECURSIVE FirstIndex(_, _, _)
FirstIndex(list, x, i) ==
    IF i > Len(list) THEN i
    ELSE IF list[i][1] = x THEN i
    ELSE FirstIndex(list, x, i + 1)

\* "self._header_cache[k] = v"
CachePut(cache, k, v) == { p \in cache : p[1] # k } \cup { <<k, v>> }

\* the cache after the loop of header() went through entries 1..n of the list
RECURSIVE CacheFill(_, _, _)
CacheFill(cache, list, n) ==
    IF n = 0 THEN cache
    ELSE CachePut(CacheFill(cache, list, n - 1), list[n][1], list[n][2])

InCache(cache, x)  == \E p \in cache : p[1] = x
CacheGet(cache, x) == (CHOOSE p \in cache : p[1] = x)[2]

\* (mutant) the cache is filled and never read
HeaderCallAlwaysScan(cache, list, x) ==
    LET key == ToBytesUtf8(x)
        i   == FirstIndex(list, key, 1)
        n   == IF i > Len(list) THEN Len(list) ELSE i
    IN  << [key |-> key,
            res |-> IF i > Len(list) THEN None ELSE Bytes(list[i][2]),
            scanned |-> TRUE, iterated |-> n],
           CacheFill(cache, list, n) >>

\* (mutant) the loop returns what it finds and memoizes nothing
HeaderCallNoMemo(cache, list, x) ==
    LET key == ToBytesUtf8(x)
        i   == FirstIndex(list, key, 1)
        n   == IF i > Len(list) THEN Len(list) ELSE i
    IN  IF InCache(cache, key)
        THEN << [key |-> key, res |-> Bytes(CacheGet(cache, key)),
                 scanned |-> FALSE, iterated |-> 0], cache >>
        ELSE << [key |-> key,
                 res |-> IF i > Len(list) THEN None ELSE Bytes(list[i][2]),
                 scanned |-> TRUE, iterated |-> n],
                cache >>

\* header(x): <<the call's record, the cache after it>>
HeaderCall(cache, list, x) ==
    LET key == ToBytesUtf8(x)
        i   == FirstIndex(list, key, 1)
        n   == IF i > Len(list) THEN Len(list) ELSE i
    IN  IF InCache(cache, key)
        THEN << [key |-> key, res |-> Bytes(CacheGet(cache, key)),
                 scanned |-> FALSE, iterated |-> 0], cache >>
        ELSE << [key |-> key,
                 res |-> IF i > Len(list) THEN None ELSE Bytes(list[i][2]),
                 scanned |-> TRUE, iterated |-> n],
                CacheFill(cache, list, n) >>

NoLookup == [key |-> <<>>, res |-> None, scanned |-> FALSE, iterated |-> -1]

\* Authorization values: the default one, and what get_signer_sub may return
NoAuth     == [present |-> FALSE, oauth_sub |-> None]
AuthValues == { NoAuth, [present |-> TRUE, oauth_sub |-> Str(<<65>>)] }

\* Authorization.unauthorized_if_none(): raises unless the value is present
UnauthorizedIfNone(a) == ~a.present

\* bytes.decode("latin-1"): byte b is code point b
DecodeLatin1(b) == [i \in DOMAIN b |-> b[i]]

\* header_str's conversion of the result of header()
HeaderStr(res) == IF res.t = "none" THEN None ELSE Str(DecodeLatin1(res.v))

\* (mutant) __post_init__ without its last statement
PostInitNoCheck(signed) ==
    /\ ctxState = "new"
    /\ LET c == HeaderCall(hdrCache, hdrList, Str(bAuthorization))
           h == HeaderStr(c[1].res)
       IN  /\ hdrCache' = c[2]
           /\ hdrLast' = c[1]
           /\ hdrPrev' = hdrLast
           /\ signerArg' = h
           /\ auth' = IF h # None THEN signed ELSE NoAuth
           /\ ctxState' = "ready"
    /\ UNCHANGED <<hdrList, dbVars>>
    /\ UNCHANGED notCtx

\* WebsocketContext.__post_init__, with the Authorization that
\* get_signer_sub returns when it is called
PostInit(signed) ==
    /\ ctxState = "new"
    /\ LET c == HeaderCall(hdrCache, hdrList, Str(bAuthorization))
           h == HeaderStr(c[1].res)
           a == IF h # None THEN signed ELSE NoAuth
       IN  /\ hdrCache' = c[2]
           /\ hdrLast' = c[1]
           /\ hdrPrev' = hdrLast
           /\ signerArg' = h
           /\ auth' = a
           /\ ctxState' = IF UnauthorizedIfNone(a) THEN "failed" ELSE "ready"
    /\ UNCHANGED <<hdrList, dbVars>>
    /\ UNCHANGED notCtx

\* keys a handler looks up: str and bytes, a name in another letter case
LookupKeys ==
    { Str(bAuthorization), Bytes(<<97>>), Str(<<233>>), Str(<<65>>) }

\* header(x), called by a handler on a constructed context
Header(x) ==
    /\ ctxState = "ready"
    /\ LET c == HeaderCall(hdrCache, hdrList, x)
       IN  /\ hdrCache' = c[2]
           /\ hdrLast' = c[1]
           /\ hdrPrev' = hdrLast
    /\ UNCHANGED <<hdrList, ctxState, auth, signerArg, dbVars>>
    /\ UNCHANGED notCtx

\* f"db.response.{idx}"
DbPrefix(idx) == [base |-> "db.response.", idx |-> DecimalStr(idx)]

\* (mutant) the counter stays where it is
DbNextIdxStuck(idx) == idx

\* "self._db_response_idx += 1"
DbNextIdx(idx) == idx + 1

\* attribute dicts a handler records: empty, one row, an error
DbPayloads == { {}, { <<"rows", 1>> }, { <<"error", 1>> } }

\* add_request_span_attrs(data, prefix)
AddRequestSpanAttrs(span, data, prefix) ==
    Append(span, [prefix |-> prefix, data |-> data])

\* add_db_response(data), called by a handler on a constructed context
AddDbResponse(data) ==
    /\ ctxState = "ready"
    /\ Len(dbSpan) < MaxDbCalls
    /\ dbSpan' = AddRequestSpanAttrs(dbSpan, data, DbPrefix(dbIdx))
    /\ dbIdx' = DbNextIdx(dbIdx)
    /\ UNCHANGED <<hdrList, hdrCache, hdrLast, hdrPrev, ctxState, auth, signerArg>>
    /\ UNCHANGED notCtx

\* header names and values a scope may carry (names as the gateway sends
\* them, lower case)
HdrNames  == { bAuthorization, <<97>>, <<195, 169>> }
HdrValues == { <<49>>, <<50>> }
HdrPairs  == { <<n, v>> : n \in HdrNames, v \in HdrValues }

RECURSIVE SeqsUpTo(_, _)
SeqsUpTo(S, n) ==
    IF n = 0 THEN { <<>> }
    ELSE LET R == SeqsUpTo(S, n - 1)
         IN  R \cup { Append(q, x) : q \in { r \in R : Len(r) = n - 1 }, x \in S }

---------------------------------------------------------------------------
(* Several connections, each with its own WebsocketContext *)
Ctxs == { 1, 2 }

\* (mutant) one dict object serves every instance
CacheRefShared(c) == 1

\* "field(default_factory=dict, init=False)": the dict object that instance
\* c holds in _header_cache is one made for c
CacheRef(c) == c

\* __post_init__ on a cache and a header list: the cache, the Authorization
\* and the outcome it leaves
PostInitResult(cache, list, signed) ==
    LET c == HeaderCall(cache, list, Str(bAuthorization))
        h == HeaderStr(c[1].res)
        a == IF h # None THEN signed ELSE NoAuth
    IN  [cache |-> c[2], auth |-> a,
         state |-> IF UnauthorizedIfNone(a) THEN "failed" ELSE "ready",
         last |-> [op |-> "__post_init__", res |-> c[1].res, prefix |-> <<>>]]

\* the scopes of the connections: their authorization and "a" headers differ
TwoLists ==
    { << <<bAuthorization, <<49>>>>, << <<97>>, <<49>> >> >>,
      << << <<97>>, <<50>> >>, <<bAuthorization, <<50>>>> >>,
      << << <<97>>, <<49>> >> >> }

TwoKeys == { Bytes(<<97>>), Str(bAuthorization), Str(<<65>>) }

NewCtx(list) ==
    [list |-> list, state |-> "new", auth |-> NoAuth, idx |-> 0,
     last |-> [op |-> "", res |-> None, prefix |-> <<>>]]

InitTwo(lists) ==
    /\ cx \in [Ctxs -> { NewCtx(l) : l \in lists }]
    /\ heap = [c \in Ctxs |-> {}]
    /\ solo = [c \in Ctxs |-> [cache |-> {}, state |-> "new", auth |-> NoAuth, idx |-> 0,
                               last |-> [op |-> "", res |-> None, prefix |-> <<>>]]]

\* the construction of the context of connection c
TwoPostInit(c, signed) ==
    /\ cx[c].state = "new"
    /\ LET r == PostInitResult(heap[CacheRef(c)], cx[c].list, signed)
           s == PostInitResult(solo[c].cache, cx[c].list, signed)
       IN  /\ heap' = [heap EXCEPT ![CacheRef(c)] = r.cache]
           /\ cx' = [cx EXCEPT ![c].state = r.state, ![c].auth = r.auth, ![c].last = r.last]
           /\ solo' = [solo EXCEPT ![c].cache = s.cache, ![c].state = s.state,
                                   ![c].auth = s.auth, ![c].last = s.last]
    /\ UNCHANGED notTwo

\* header(x) on the context of connection c
TwoHeader(c, x) ==
    /\ cx[c].state = "ready"
    /\ LET r == HeaderCall(heap[CacheRef(c)], cx[c].list, x)
           s == HeaderCall(solo[c].cache, cx[c].list, x)
       IN  /\ heap' = [heap EXCEPT ![CacheRef(c)] = r[2]]
           /\ cx' = [cx EXCEPT ![c].last = [op |-> "header", res |-> r[1].res,
                                            prefix |-> <<>>]]
           /\ solo' = [solo EXCEPT ![c].cache = s[2],
                                   ![c].last = [op |-> "header", res |-> s[1].res,
                                                prefix |-> <<>>]]
    /\ UNCHANGED notTwo

\* add_db_response(data) on the context of connection c
TwoAddDbResponse(c, data) ==
    /\ cx[c].state = "ready"
    /\ cx[c].idx < MaxDbCalls
    /\ cx' = [cx EXCEPT ![c].idx = DbNextIdx(cx[c].idx),
                        ![c].last = [op |-> "add_db_response", res |-> None,
                                     prefix |-> DbPrefix(cx[c].idx).idx]]
    /\ solo' = [solo EXCEPT ![c].idx = DbNextIdx(solo[c].idx),
                            ![c].last = [op |-> "add_db_response", res |-> None,
                                         prefix |-> DbPrefix(solo[c].idx).idx]]
    /\ UNCHANGED heap
    /\ UNCHANGED notTwo

---------------------------------------------------------------------------
(* Initial states *)
InitWs ==
    /\ wsIn = <<>>
    /\ wsPos = 0
    /\ wsOut = <<>>
    /\ wsOutSess = <<>>
    /\ wsRes = NoCall
    /\ wsPrev = NoCall
    /\ wsCall = [arg |-> None, outBefore |-> 0, posBefore |-> 0]
    /\ wsSpan = [sent |-> -1, close_reason |-> None]
    /\ session = "AwaitingAccept"
    /\ itState = "none"
    /\ itYield = <<>>
    /\ itStart = 0

InitHttp ==
    /\ httpIn = <<>>
    /\ httpPos = 0
    /\ rdPc = "idle"
    /\ rdRes = <<>>
    /\ rdMore = TRUE
    /\ rdStart = 0
    /\ httpRes = NoCall
    /\ clsArg = ""
    /\ httpSpan = [request_content_length |-> -1, response_content_length |-> -1]
    /\ httpOut = <<>>
    /\ sdPc = "idle"
    /\ sdArgs = [op |-> "", status |-> 0, arg |-> None, data |-> <<>>,
                 content_type |-> None, headers |-> <<>>]
    /\ sdStart = 0
    /\ sdDone = 0

InitCtx(lists) ==
    /\ hdrList \in lists
    /\ hdrCache = {}
    /\ hdrLast = NoLookup
    /\ hdrPrev = NoLookup
    /\ ctxState = "new"
    /\ auth = NoAuth
    /\ signerArg = None
    /\ dbIdx = 0
    /\ dbSpan = <<>>

(* One websocket connection: the gateway and the calls of a handler *)
Init == scopeType = "websocket" /\ InitWs /\ InitHttp /\ InitCtx({ <<>> })
    /\ InitErr /\ InitTwo({ <<>> })

Next ==
    \/ \E ev \in WsEvents : WsDeliver(MaxWsEvents, ev)
    \/ \E a \in AcceptArgs : AcceptWebsocketConnection(a)
    \/ ReceiveWebsocketData
    \/ \E d \in SendArgs : SendWebsocketData(d)
    \/ \E c \in CloseArgs : CloseWebsocketConnection(c)

Spec == Init /\ [][Next]_vars

(* One websocket connection read through receive_websocket_data_iter *)
NextIter ==
    \/ \E ev \in WsEvents : WsDeliver(MaxIterEvents, ev)
    \/ ReceiveWebsocketDataIter
    \/ IterNext
    \/ IterNextFinished

SpecIter == Init /\ [][NextIter]_vars

(* One HTTP connection whose request body is read *)
InitHttpConn == scopeType = "http" /\ InitWs /\ InitHttp /\ InitCtx({ <<>> })
    /\ InitErr /\ InitTwo({ <<>> })

NextRecv ==
    \/ \E ev \in HttpEvents : HttpDeliver(ev)
    \/ ReceiveDataCall
    \/ ReceiveDataChunk

SpecRecv == InitHttpConn /\ [][NextRecv]_vars

(* One HTTP connection on which responses are sent *)
NextSend ==
    \/ \E st \in Statuses, d \in TextData, ct \in ContentTypeArgs, h \in HeaderArgs :
            SendHttpData(st, d, ct, h)
    \/ \E st \in Statuses, d \in JsonData, h \in HeaderArgs :
            SendJson("send_json", st, d, Str(sApplicationJson), h)
    \/ \E st \in Statuses, d \in TextData \cup JsonData, h \in HeaderArgs :
            SendAuto(st, d, h)
    \/ SendHttpDataBody

SpecSend == InitHttpConn /\ [][NextSend]_vars

(* One connection of either type, on which a handler receives *)
InitConn ==
    scopeType \in {"websocket", "http"} /\ InitWs /\ InitHttp /\ InitCtx({ <<>> })
        /\ InitErr /\ InitTwo({ <<>> })

NextConn ==
    \/ \E ev \in WsEvents : WsDeliver(MaxWsEvents, ev)
    \/ ReceiveWebsocketData
    \/ \E ev \in HttpEvents : HttpDeliver(ev)
    \/ ReceiveDataCall
    \/ ReceiveDataChunk

SpecConn == InitConn /\ [][NextConn]_vars

(* One connection of either type, on which a handler receives typed values *)
NextClass ==
    \/ \E ev \in ClassWsEvents : WsDeliver(MaxWsEvents, ev)
    \/ \E cls \in Classes : ReceiveWebsocketClassExt(cls)
    \/ \E ev \in ClassHttpEvents : HttpDeliver(ev)
    \/ \E cls \in Classes : ReceiveClassExtCall(cls)
    \/ ReceiveClassExtChunk

SpecClass == InitConn /\ [][NextClass]_vars

(* One connection of either type and every call a handler makes on it, one
   after another *)
NextOrder ==
    \/ \E ev \in WsEvents : WsDeliver(MaxWsEvents, ev)
    \/ \E a \in AcceptArgs : AcceptWebsocketConnection(a)
    \/ ReceiveWebsocketData
    \/ scopeType = "websocket" /\ \E d \in SendArgs : SendWebsocketData(d)
    \/ scopeType = "websocket" /\ \E c \in CloseArgs : CloseWebsocketConnection(c)
    \/ \E ev \in HttpEvents : HttpDeliver(ev)
    \/ ReceiveDataCall
    \/ ReceiveDataChunk

SpecOrder == InitConn /\ [][NextOrder]_vars

(* One context: its construction and the header lookups of a handler *)
InitHdr == scopeType = "websocket" /\ InitWs /\ InitHttp /\ InitCtx(SeqsUpTo(HdrPairs, MaxHdrs))
    /\ InitErr /\ InitTwo({ <<>> })

NextHdr ==
    \/ \E a \in AuthValues : PostInit(a)
    \/ \E x \in LookupKeys : Header(x)

SpecHdr == InitHdr /\ [][NextHdr]_vars

(* One context: its construction and the database responses it records *)
NextDb ==
    \/ \E a \in AuthValues : PostInit(a)
    \/ \E d \in DbPayloads : AddDbResponse(d)

SpecDb == InitHdr /\ [][NextDb]_vars

(* The error values a handler or the core constructs *)
NextErr ==
    \E c \in ErrorClasses, st \in ErrStatusArgs, d \in ErrDataArgs, h \in ErrHeadersArgs :
        ConstructError(c, st, d, h)

SpecErr == Init /\ [][NextErr]_vars

(* Several connections whose handlers run interleaved *)
InitInterleaved ==
    scopeType = "websocket" /\ InitWs /\ InitHttp /\ InitCtx({ <<>> }) /\ InitErr /\ InitTwo(TwoLists)

NextInterleaved ==
    \/ \E c \in Ctxs, a \in AuthValues : TwoPostInit(c, a)
    \/ \E c \in Ctxs, x \in TwoKeys : TwoHeader(c, x)
    \/ \E c \in Ctxs, d \in DbPayloads : TwoAddDbResponse(c, d)

SpecInterleaved == InitInterleaved /\ [][NextInterleaved]_vars

---------------------------------------------------------------------------
(* Properties *)

\* the events the current (or last) receive_data call has consumed
CallEvents == SubSeq(httpIn, rdStart + 1, httpPos)

IsChunk(e, more) == e.type = "http.request" /\ e.more_body = more

RECURSIVE ConcatBodies(_)
ConcatBodies(evs) ==
    IF evs = <<>> THEN <<>> ELSE Head(evs).body \o ConcatBodies(Tail(evs))

\* a chunked delivery [(b1, true), ..., (bn, false)], n >= 1
IsCompleteBody(evs) ==
    /\ Len(evs) >= 1
    /\ \A i \in 1 .. Len(evs) - 1 : IsChunk(evs[i], TRUE)
    /\ IsChunk(evs[Len(evs)], FALSE)

\* C1: receive_data returns the concatenation, in delivery order, of the
\* bodies of the chunks it consumed, it returns exactly when the chunk with
\* more_body = false has been consumed, and until then every chunk it
\* consumed had more_body = true
C1_ReceiveDataConcat ==
    /\ rdPc = "returned" =>
          /\ IsCompleteBody(CallEvents)
          /\ httpRes = Return("receive_data", ConcatBodies(CallEvents))
    /\ (rdPc # "idle" /\ IsCompleteBody(CallEvents)) =>
          /\ rdPc = "returned"
          /\ httpRes.val = ConcatBodies(CallEvents)
    /\ rdPc = "loop" =>
          /\ \A i \in DOMAIN CallEvents : IsChunk(CallEvents[i], TRUE)
          /\ rdRes = ConcatBodies(CallEvents)
          /\ httpRes = NoCall

\* a body of three chunks whose last one is empty has been returned
C1_Witness ==
    /\ rdPc = "returned"
    /\ Len(CallEvents) = 3
    /\ CallEvents[3].body = <<>>
    /\ httpRes.val = <<65, 66>>

HasDisconnect(evs) == \E i \in DOMAIN evs : evs[i].type = "http.disconnect"

\* C2: a receive_data call that consumed a disconnect has raised
\* HTTPConnectionClosedError and returned no value, whatever it had read; a
\* receive_websocket_data call that consumed a disconnect has raised
\* WebsocketConnectionClosedError and returned no value
C2_DisconnectRaises ==
    /\ (rdPc # "idle" /\ HasDisconnect(CallEvents)) =>
          /\ rdPc = "raised"
          /\ httpRes = Raise("receive_data", "HTTPConnectionClosedError", "")
    /\ rdPc = "returned" => ~HasDisconnect(CallEvents)
    /\ (wsRes.op = "receive_websocket_data"
            /\ wsIn[wsPos].type = "websocket.disconnect") =>
          /\ wsRes.kind = "raise"
          /\ wsRes.exc = "WebsocketConnectionClosedError"
          /\ wsRes.val = None

\* a disconnect arrived after two chunks that carried data
C2_Witness ==
    /\ rdPc = "raised"
    /\ Len(CallEvents) = 3
    /\ rdRes = <<65, 66>>
    /\ httpRes.exc = "HTTPConnectionClosedError"

\* the events the current generator has consumed
GenEvents == SubSeq(wsIn, itStart + 1, wsPos)

IsValidData(e) ==
    e.type = "websocket.receive" /\ (e.bytes.t # "none" \/ e.text.t # "none")

\* the payload of a valid data event; the only text sent is U+00E9
PayloadOf(e) == IF e.bytes.t # "none" THEN e.bytes.v ELSE <<195, 169>>

Payloads(evs) == [i \in DOMAIN evs |-> PayloadOf(evs[i])]

\* C3: a generator that consumed k valid data events and then a disconnect
\* has yielded exactly their k payloads in order and has ended by the break,
\* without an exception; it stays so whatever is asked of it afterwards; and
\* one that has consumed only valid data events has yielded exactly their
\* payloads
C3_IterYieldsThenStops ==
    itState # "none" =>
        LET evs == GenEvents
            n   == Len(evs)
        IN  /\ (n >= 1 /\ (\A i \in 1 .. n - 1 : IsValidData(evs[i]))
                    /\ evs[n].type = "websocket.disconnect") =>
                  /\ itState = "done"
                  /\ itYield = Payloads(SubSeq(evs, 1, n - 1))
                  /\ wsRes = Raise("__anext__", "StopAsyncIteration", "")
            /\ (\A i \in 1 .. n : IsValidData(evs[i])) =>
                  /\ itState = "running"
                  /\ itYield = Payloads(evs)

\* two messages then a disconnect were read, and the finished generator was
\* asked for one more value
C3_Witness ==
    /\ itState = "done"
    /\ Len(itYield) = 2
    /\ wsRes.op = "__anext__"
    /\ wsCall.posBefore = wsPos

\* C4: receive_websocket_data consumes exactly one event, emits nothing, and
\* its outcome is decided by that event: connect -> WebsocketBadMessage,
\* disconnect -> WebsocketConnectionClosedError, bytes not null -> the bytes
\* (also when they are empty or a text is set too), else text not null -> its
\* UTF-8 encoding, else WebsocketBadMessage
C4_ReceiveOutcome ==
    wsRes.op = "receive_websocket_data" =>
        LET e == wsIn[wsPos] IN
        /\ wsPos = wsCall.posBefore + 1
        /\ Len(wsOut) = wsCall.outBefore
        /\ e.type = "websocket.connect" =>
              wsRes.kind = "raise" /\ wsRes.exc = "WebsocketBadMessage"
        /\ e.type = "websocket.disconnect" =>
              wsRes.kind = "raise" /\ wsRes.exc = "WebsocketConnectionClosedError"
        /\ (e.type = "websocket.receive" /\ e.bytes.t # "none") =>
              wsRes.kind = "return" /\ wsRes.val = e.bytes.v
        /\ (e.type = "websocket.receive" /\ e.bytes.t = "none" /\ e.text.t # "none") =>
              wsRes.kind = "return" /\ wsRes.val = <<195, 169>>
        /\ (e.type = "websocket.receive" /\ e.bytes.t = "none" /\ e.text.t = "none") =>
              wsRes.kind = "raise" /\ wsRes.exc = "WebsocketBadMessage"

\* a message with empty bytes and a text was received as the empty payload
C4_Witness ==
    /\ wsRes.op = "receive_websocket_data"
    /\ wsIn[wsPos] = WsReceive(Bytes(<<>>), Str(<<233>>))
    /\ wsRes.kind = "return"
    /\ wsRes.val = <<>>

\* a str or bytes header part on the wire: Latin-1 has one byte per code
\* point, with the code point's number
OnWire(x) == x.v

\* C5: accept_websocket_connection consumes exactly one event; when it is no
\* connect event the call raises WebsocketBadMessage and emits nothing; when
\* it is one the call emits exactly one accept event, with the subprotocol
\* given and the caller's headers Latin-1 encoded in the caller's order
C5_AcceptOutcome ==
    wsRes.op = "accept_websocket_connection" =>
        /\ wsPos = wsCall.posBefore + 1
        /\ IF wsIn[wsPos].type # "websocket.connect"
           THEN /\ wsRes.kind = "raise"
                /\ wsRes.exc = "WebsocketBadMessage"
                /\ Len(wsOut) = wsCall.outBefore
           ELSE /\ wsRes.kind = "return"
                /\ Len(wsOut) = wsCall.outBefore + 1
                /\ wsOut[Len(wsOut)] =
                      [type |-> "websocket.accept",
                       subprotocol |-> wsCall.arg.subprotocol,
                       headers |->
                          [i \in DOMAIN wsCall.arg.headers |->
                              <<OnWire(wsCall.arg.headers[i][1]),
                                OnWire(wsCall.arg.headers[i][2])>>]]

\* a connection was accepted with two headers, of str and bytes parts
C5_Witness ==
    /\ wsRes.op = "accept_websocket_connection"
    /\ wsRes.kind = "return"
    /\ wsOut[Len(wsOut)].headers = << << <<233>>, <<65>> >>, << <<65>>, <<233, 65>> >> >>

AcceptedTwice ==
    /\ wsPrev.op = "accept_websocket_connection"
    /\ wsPrev.kind = "return"
    /\ wsRes.op = "accept_websocket_connection"

\* C6: when accept_websocket_connection is called right after an accept
\* that succeeded, the second call raises WebsocketBadMessage and emits no
\* second accept event
C6_SecondAcceptFails ==
    AcceptedTwice =>
        /\ wsRes.kind = "raise"
        /\ wsRes.exc = "WebsocketBadMessage"
        /\ Len(wsOut) = wsCall.outBefore

\* C7: a websocket.send event is emitted only while the session is Open, and
\* no event is emitted after a close event
C7_SendOnlyWhileOpen ==
    \A i \in DOMAIN wsOut :
        /\ wsOut[i].type = "websocket.send" => wsOutSess[i] = "Open"
        /\ \A j \in 1 .. i - 1 : wsOut[j].type # "websocket.close"

\* str(n) for n < 100, as bytes
Decimal(n) == IF n < 10 THEN <<48 + n>> ELSE <<48 + (n \div 10), 48 + (n % 10)>>

\* the body that the data argument of a send call stands for
BodyOf(x) ==
    IF x.t = "bytes" THEN x.v
    ELSE IF x.t = "str" THEN <<195, 169>>
    ELSE IF x.t = "int" THEN Decimal(x.v)
    ELSE <<34, 195, 169, 34>>

\* C8: each completed send_http_data call (also one made through send_json
\* or send_auto) has emitted exactly two events: a start event with the
\* status given and Content-Length, the decimal byte length of the body, as
\* its first header, then a body event with the whole body and
\* more_body = false; a call in progress has emitted its start event only
C8_StartThenBody ==
    /\ Len(httpOut) = 2 * sdDone + (IF sdPc = "body" THEN 1 ELSE 0)
    /\ \A k \in 1 .. sdDone :
          /\ httpOut[2 * k - 1].type = "http.response.start"
          /\ httpOut[2 * k].type = "http.response.body"
          /\ httpOut[2 * k].more_body = FALSE
          /\ httpOut[2 * k - 1].headers[1] =
                <<bContentLength, Decimal(Len(httpOut[2 * k].body))>>
    /\ sdPc = "body" =>
          /\ Len(httpOut) = sdStart + 1
          /\ httpOut[Len(httpOut)].type = "http.response.start"
    /\ (sdPc = "idle" /\ sdDone > 0) =>
          /\ Len(httpOut) = sdStart + 2
          /\ httpOut[sdStart + 1].status = sdArgs.status
          /\ httpOut[sdStart + 2].body = BodyOf(sdArgs.arg)

\* a ten-byte body was sent, then a JSON string through send_auto
C8_Witness ==
    /\ sdPc = "idle"
    /\ sdDone = 2
    /\ httpOut[1].headers[1] = <<bContentLength, <<49, 48>>>>
    /\ sdArgs.op = "send_auto"
    /\ sdArgs.arg.t = "jstr"
    /\ Len(sdArgs.headers) = 2

\* C9: every Content-Length header of a start event states the byte length
\* of the body sent after it
C9_ContentLengthIsOwn ==
    \A i \in 1 .. Len(httpOut) - 1 :
        httpOut[i].type = "http.response.start" =>
            \A j \in DOMAIN httpOut[i].headers :
                httpOut[i].headers[j][1] = bContentLength =>
                    httpOut[i].headers[j][2] = Decimal(Len(httpOut[i + 1].body))

\* header() was called twice in a row with the same key
SameKeyTwice ==
    /\ hdrPrev.iterated # -1
    /\ hdrLast.iterated # -1
    /\ hdrPrev.key = hdrLast.key

\* C10 as stated: two successive lookups of one key return the same value and
\* the second scans nothing
C10_SecondLookupNeverScans ==
    SameKeyTwice => hdrLast.res = hdrPrev.res /\ ~hdrLast.scanned

\* C10, amended: two successive lookups of one key return the same value;
\* the second scans nothing when the key is a name of the header list; when
\* it is not, both return None and the second goes through the whole list
\* again
C10_SecondLookupCached ==
    SameKeyTwice =>
        /\ hdrLast.res = hdrPrev.res
        /\ (\E i \in DOMAIN hdrList : hdrList[i][1] = hdrLast.key) =>
              /\ ~hdrLast.scanned
              /\ hdrLast.res # None
        /\ (\A i \in DOMAIN hdrList : hdrList[i][1] # hdrLast.key) =>
              /\ hdrLast.res = None
              /\ hdrLast.scanned
              /\ hdrLast.iterated = Len(hdrList)

\* a str key was found by a scan and then looked up again
C10_Witness ==
    /\ SameKeyTwice
    /\ hdrLast.key = <<195, 169>>
    /\ hdrPrev.scanned
    /\ hdrPrev.iterated = 3
    /\ ~hdrLast.scanned
    /\ hdrLast.res = Bytes(<<50>>)

CacheNames(cache) == { p[1] : p \in cache }

\* C11: in every step of a context the scope's header list stays as it is,
\* the cache keeps its keys and holds <<name, value>> entries of the header
\* list only, a lookup of a key that is in the cache returns the cached value
\* without going through the list and leaves the cache as it is, and a
\* lookup that finds its key at position i of the list leaves every name at
\* positions up to i in the cache
C11_CacheInvariant ==
    [][ /\ hdrList' = hdrList
        /\ CacheNames(hdrCache) \subseteq CacheNames(hdrCache')
        /\ \A p \in hdrCache' : \E i \in DOMAIN hdrList : hdrList[i] = p
        /\ InCache(hdrCache, hdrLast'.key) =>
              /\ ~hdrLast'.scanned
              /\ hdrLast'.iterated = 0
              /\ hdrLast'.res = Bytes(CacheGet(hdrCache, hdrLast'.key))
              /\ hdrCache' = hdrCache
        /\ (hdrLast'.scanned /\ hdrLast'.res # None) =>
              /\ hdrList[hdrLast'.iterated][1] = hdrLast'.key
              /\ \A j \in 1 .. hdrLast'.iterated :
                    hdrList[j][1] \in CacheNames(hdrCache')
      ]_vars

\* a lookup was answered from the cache after a scan of three entries had
\* filled it with three names
C11_Witness ==
    /\ Cardinality(hdrCache) = 3
    /\ hdrPrev.scanned
    /\ hdrPrev.iterated = 3
    /\ ~hdrLast.scanned
    /\ hdrLast.key # hdrPrev.key
    /\ hdrLast.res # None

\* C12: the counter of a context starts at 0, never decreases, and after
\* every step equals the number of add_db_response calls made; the n-th
\* call (counted from 0) recorded its attributes under db.response.n, so no
\* two calls used the same prefix, whatever the payloads were
C12_DbResponsePrefixes ==
    /\ dbIdx = 0
    /\ [][ /\ dbIdx' >= dbIdx
           /\ dbIdx' = Len(dbSpan')
           /\ dbSpan' # dbSpan =>
                 /\ dbIdx' = dbIdx + 1
                 /\ dbSpan'[Len(dbSpan')].prefix.idx = Decimal(dbIdx)
           /\ \A n \in 1 .. Len(dbSpan') :
                 /\ dbSpan'[n].prefix.base = "db.response."
                 /\ dbSpan'[n].prefix.idx = Decimal(n - 1)
           /\ \A m, n \in 1 .. Len(dbSpan') :
                 m # n => dbSpan'[m].prefix # dbSpan'[n].prefix
         ]_vars

\* three responses were recorded, the first and the last with equal payloads
C12_Witness ==
    /\ Len(dbSpan) = 3
    /\ dbIdx = 3
    /\ dbSpan[1].data = dbSpan[3].data
    /\ dbSpan[2].data # dbSpan[1].data

HasAuthorizationHeader == \E i \in DOMAIN hdrList : hdrList[i][1] = bAuthorization

\* C13: a context whose construction completed has a present Authorization;
\* without an authorization header the signer is not called, the default
\* Authorization stays and construction fails; with the header the signer
\* gets the header's first value and a non-present result fails
\* construction; a handler's lookups happen on constructed contexts only
C13_ConstructedMeansPresent ==
    /\ ctxState = "ready" => auth.present
    /\ ctxState = "new" => hdrLast = NoLookup /\ signerArg = None /\ auth = NoAuth
    /\ (ctxState # "new" /\ ~HasAuthorizationHeader) =>
          /\ signerArg = None
          /\ auth = NoAuth
          /\ ctxState = "failed"
    /\ (ctxState # "new" /\ HasAuthorizationHeader) =>
          /\ signerArg = Str(hdrList[FirstIndex(hdrList, bAuthorization, 1)][2])
          /\ ~auth.present => ctxState = "failed"
          /\ auth.present => ctxState = "ready"
    /\ hdrPrev # NoLookup => ctxState = "ready" /\ auth.present

\* construction failed although the scope carries an authorization header
\* (at the second position), because the signer's result was not present
C13_Witness ==
    /\ ctxState = "failed"
    /\ HasAuthorizationHeader
    /\ hdrList[1][1] # bAuthorization
    /\ signerArg # None
    /\ ~auth.present


\* the JSON documents among the bodies of the typed receives: a row of
\* digits 1, "" and "A"
IsDoc(body) ==
    \/ body # <<>> /\ \A i \in DOMAIN body : body[i] = 49
    \/ body \in { <<34, 34>>, <<34, 65, 34>> }

DocClass(body) == IF body[1] = 34 THEN "str" ELSE "int"

\* what a typed receive makes of a body it has read: the bad-request class
\* bad with the fixed payload, bad with the validator's payload, or the pair
ClassOutcomeIs(res, bad, body, cls) ==
    IF ~IsDoc(body)
    THEN /\ res.kind = "raise"
         /\ res.exc = bad
         /\ res.data = "Failed to parse JSON"
         /\ InitStatus(res.exc, 0) = 400
    ELSE IF DocClass(body) # cls
    THEN /\ res.kind = "raise"
         /\ res.exc = bad
         /\ res.data \in { "{\"expected\": \"int\"}", "{\"expected\": \"str\"}" }
         /\ InitStatus(res.exc, 0) = 400
    ELSE /\ res.kind = "return"
         /\ res.val[1].t = (IF cls = "int" THEN "int" ELSE "jstr")
         /\ Dumps(res.val[1]) = body
         /\ res.val[2] = [cls |-> cls, v |-> res.val[1].v]

\* C14: a finished receive_class_ext call that consumed a disconnect raised
\* HTTPConnectionClosedError; otherwise a body that is no JSON document gave
\* HTTPBadRequest (400) "Failed to parse JSON", a document of another class
\* HTTPBadRequest with the validator's error, and a document of the class
\* the pair of the decoded and the validated value.  The same holds for
\* receive_websocket_class_ext with WebsocketConnectionClosedError and
\* WebsocketBadMessage, and it raises nothing else
C14_FirstFailingStage ==
    /\ httpRes.op = "receive_class_ext" =>
          IF HasDisconnect(CallEvents)
          THEN /\ httpRes.kind = "raise"
               /\ httpRes.exc = "HTTPConnectionClosedError"
          ELSE ClassOutcomeIs(httpRes, "HTTPBadRequest", ConcatBodies(CallEvents), clsArg)
    /\ httpRes.kind = "raise" =>
          httpRes.exc \in { "HTTPBadRequest", "HTTPConnectionClosedError" }
    /\ wsRes.op = "receive_websocket_class_ext" =>
          LET msg == wsIn[wsCall.posBefore + 1]
          IN  /\ wsPos = wsCall.posBefore + 1
              /\ msg.type = "websocket.disconnect" =>
                    /\ wsRes.kind = "raise"
                    /\ wsRes.exc = "WebsocketConnectionClosedError"
              /\ IsValidData(msg) =>
                    ClassOutcomeIs(wsRes, "WebsocketBadMessage",
                                   ToBytesUtf8(IF msg.bytes.t # "none" THEN msg.bytes
                                               ELSE msg.text),
                                   wsCall.arg.v)
    /\ wsRes.kind = "raise" =>
          wsRes.exc \in { "WebsocketBadMessage", "WebsocketConnectionClosedError" }

\* a body that came in two chunks and is the document "A" failed validation
\* against int, after an earlier call on the connection had returned
C14_Witness ==
    /\ httpRes.op = "receive_class_ext"
    /\ httpRes.kind = "raise"
    /\ httpRes.data = "{\"expected\": \"int\"}"
    /\ Len(CallEvents) = 2
    /\ rdRes = <<34, 65, 34>>
    /\ rdStart = 1


IsPrefix(s, t) == Len(s) <= Len(t) /\ SubSeq(t, 1, Len(s)) = s

\* C15: in every step the events sent so far stay as they are and at most
\* one is added behind them, the delivered events stay as they are, and the
\* read position moves by at most one and never past what was delivered;
\* receive_websocket_data and accept_websocket_connection take exactly the
\* next undelivered event, also when they raise, and their outcome is that
\* event's; send and close take none; receive_data takes events only while
\* it runs and ends with the first event that is a disconnect or a chunk
\* with more_body = false
C15_InOrderNoSkips ==
    [][ /\ IsPrefix(wsOut, wsOut') /\ Len(wsOut') <= Len(wsOut) + 1
        /\ IsPrefix(wsIn, wsIn') /\ IsPrefix(httpIn, httpIn')
        /\ wsPos' \in { wsPos, wsPos + 1 } /\ wsPos' <= Len(wsIn)
        /\ httpPos' \in { httpPos, httpPos + 1 } /\ httpPos' <= Len(httpIn)
        /\ (wsIn' = wsIn /\ httpIn' = httpIn /\ scopeType = "websocket") =>
              /\ wsCall'.posBefore = wsPos
              /\ wsCall'.outBefore = Len(wsOut)
              /\ wsRes'.op \in { "receive_websocket_data", "accept_websocket_connection" } =>
                    wsPos' = wsPos + 1
              /\ wsRes'.op \in { "send_websocket_data", "close_websocket_connection" } =>
                    wsPos' = wsPos /\ Len(wsOut') = Len(wsOut) + 1
              /\ wsRes'.op = "receive_websocket_data" =>
                    /\ Len(wsOut') = Len(wsOut)
                    /\ wsRes'.kind = "return" <=> IsValidData(wsIn[wsPos + 1])
                    /\ wsRes'.kind = "return" => wsRes'.val = PayloadOf(wsIn[wsPos + 1])
                    /\ wsRes'.exc = "WebsocketConnectionClosedError" <=>
                          wsIn[wsPos + 1].type = "websocket.disconnect"
              /\ wsRes'.op = "accept_websocket_connection" =>
                    /\ wsRes'.kind = "return" <=> wsIn[wsPos + 1].type = "websocket.connect"
                    /\ Len(wsOut') = Len(wsOut) + (IF wsRes'.kind = "return" THEN 1 ELSE 0)
        /\ httpPos' = httpPos + 1 =>
              /\ rdPc = "loop"
              /\ rdRes' = rdRes \o (IF httpIn[httpPos + 1].type = "http.request"
                                    THEN httpIn[httpPos + 1].body ELSE <<>>)
              /\ rdPc' = "loop" <=> IsChunk(httpIn[httpPos + 1], TRUE)
              /\ \A i \in rdStart + 1 .. httpPos : IsChunk(httpIn[i], TRUE)
        /\ rdPc' # rdPc => (httpPos' = httpPos + 1 \/ (rdPc' = "loop" /\ rdStart' = httpPos))
      ]_vars

\* receive_data returned after two chunks and left a third, delivered event
\* in the queue
C15_Witness ==
    /\ rdPc = "returned"
    /\ rdStart = 0
    /\ httpPos = 2
    /\ Len(httpIn) = 3
    /\ rdRes = <<65, 66>>


\* what the instance of connection c holds
CtxStateOf(c) ==
    [cache |-> heap[c], state |-> cx[c].state, auth |-> cx[c].auth, idx |-> cx[c].idx,
     last |-> cx[c].last]

\* C16: however the calls on the contexts of two connections interleave, a
\* step changes the cache, the counter, the Authorization and the state of
\* at most one context, and after it every context holds the cache, the
\* counter, the Authorization and the last result that it holds when its
\* calls run with no other connection
C16_ContextsIsolated ==
    [][ /\ \A c \in Ctxs : CtxStateOf(c)' = solo'[c]
        /\ \A c, d \in Ctxs :
              (c # d /\ CtxStateOf(c)' # CtxStateOf(c)) => CtxStateOf(d)' = CtxStateOf(d)
        /\ \A c \in Ctxs : cx'[c].list = cx[c].list
      ]_vars

\* both contexts are constructed from scopes with different header values,
\* each has cached its own value of the header "a", and their counters differ
C16_Witness ==
    /\ cx[1].state = "ready" /\ cx[2].state = "ready"
    /\ <<<<97>>, <<49>>>> \in heap[1]
    /\ <<<<97>>, <<50>>>> \in heap[2]
    /\ cx[1].idx = 2 /\ cx[2].idx = 1
    /\ cx[1].auth.present /\ cx[2].auth.present


\* the classes of a kind: those that fix the status s, on the HTTP side and
\* on the websocket side
HttpKind(s) ==
    { c \in ErrorClasses : /\ InitStatus(c, 0) = s
                           /\ ~IsSubclass(c, "WebsocketErrorResponse") }
WebsocketKind(s) ==
    { c \in ErrorClasses : /\ InitStatus(c, 0) = s
                           /\ IsSubclass(c, "WebsocketErrorResponse") }

ClosedErrors == { "HTTPConnectionClosedError", "WebsocketConnectionClosedError" }

StatusDefaultsHold ==
    \A i \in DOMAIN errLog :
        LET e == errLog[i]
        IN  /\ e.cls \in { "HTTPBadRequest", "WebsocketBadMessage" } => e.status = 400
            /\ e.cls = "HTTPForbidden" => e.status = 403
            /\ e.cls \in { "HTTPInternalServerError", "WebsocketInternalServerError" } =>
                  e.status = 500
            /\ e.cls \in ClosedErrors =>
                  /\ e.attrs = {}
                  /\ ~IsSubclass(e.cls, "HTTPErrorResponse")
            /\ e.cls \notin ClosedErrors =>
                  /\ e.attrs = {"status", "data", "headers"}
                  /\ IsSubclass(e.cls, "HTTPErrorResponse")

\* C17 as the spec states it: the status defaults hold, and every kind of
\* error that was constructed with its HTTP class has a websocket class of
\* the same status
C17_WebsocketVariantOfEach ==
    /\ StatusDefaultsHold
    /\ \A i \in DOMAIN errLog :
          \A s \in { 400, 403, 500 } :
              errLog[i].cls \in HttpKind(s) => WebsocketKind(s) # {}

\* C17: a bad-request error carries 400, a forbidden error 403 and an
\* internal error 500 whatever the constructor was given; bad-request and
\* internal have a websocket class of the same status and forbidden has
\* none; the connection-closed errors have no status, payload or headers
\* and are no response errors
C17_StatusDefaults ==
    /\ StatusDefaultsHold
    /\ \A i \in DOMAIN errLog :
          \A s \in { 400, 500 } :
              errLog[i].cls \in HttpKind(s) => WebsocketKind(s) # {}
    /\ WebsocketKind(403) = {}

\* a forbidden error and a websocket connection-closed error were made
C17_Witness ==
    /\ Len(errLog) = 2
    /\ errLog[1].cls = "HTTPForbidden"
    /\ errLog[1].status = 403
    /\ errLog[1].data = "y"
    /\ errLog[2].cls = "WebsocketConnectionClosedError"


\* the byte lengths of the websocket.send events among evs, added up
RECURSIVE SentBytes(_)
SentBytes(evs) ==
    IF evs = <<>> THEN 0
    ELSE (IF Head(evs).type = "websocket.send" THEN Len(Head(evs).bytes.v) ELSE 0)
         + SentBytes(Tail(evs))

\* C18: a finished send_websocket_data call has emitted exactly one
\* websocket.send event with the input as bytes (a str UTF-8 encoded: the
\* only str sent is U+00E9) and no text, and once a message was sent the
\* span attribute websocket.sent_message_content_length is the sum of the
\* byte lengths of all messages sent so far
C18_SentLengthIsCumulative ==
    /\ wsRes.op = "send_websocket_data" =>
          /\ Len(wsOut) = wsCall.outBefore + 1
          /\ wsOut[Len(wsOut)] =
                WebsocketSendEvent(
                    Bytes(IF wsCall.arg.t = "str" THEN <<195, 169>> ELSE wsCall.arg.v),
                    None)
    /\ wsSpan.sent # -1 => wsSpan.sent = SentBytes(wsOut)


\* C19: whatever was looked up before, the last header(k) call returned the
\* value of the first entry of the header list named k, or None when no
\* entry has that name
C19_LookupIgnoresHistory ==
    hdrLast # NoLookup =>
        IF \E i \in DOMAIN hdrList : hdrList[i][1] = hdrLast.key
        THEN \E i \in DOMAIN hdrList :
                /\ hdrList[i][1] = hdrLast.key
                /\ \A j \in 1 .. i - 1 : hdrList[j][1] # hdrLast.key
                /\ hdrLast.res = Bytes(hdrList[i][2])
        ELSE hdrLast.res = None


IsBadEvent(e) ==
    \/ e.type = "websocket.connect"
    \/ e.type = "websocket.receive" /\ e.bytes.t = "none" /\ e.text.t = "none"

\* C20: a generator has ended by its break only if the last event it
\* consumed is a disconnect; it has failed exactly when the last event it
\* consumed is a connect event or a data event with neither bytes nor text,
\* after valid messages only: then the failing __anext__ raised
\* WebsocketBadMessage, the payloads yielded are those of the earlier events
\* in order, and whatever is asked of it later yields nothing and consumes
\* nothing
C20_IterFailsOnBadEvent ==
    itState # "none" =>
        LET evs == GenEvents
            n   == Len(evs)
            bad == /\ n >= 1
                   /\ \A i \in 1 .. n - 1 : IsValidData(evs[i])
                   /\ IsBadEvent(evs[n])
        IN  /\ itState = "failed" <=> bad
            /\ itState = "done" => n >= 1 /\ evs[n].type = "websocket.disconnect"
            /\ bad =>
                  /\ itYield = Payloads(SubSeq(evs, 1, n - 1))
                  /\ wsRes.op = "__anext__"
                  /\ wsRes.kind = "raise"
                  /\ IF wsCall.posBefore = wsPos
                     THEN wsRes.exc = "StopAsyncIteration"
                     ELSE /\ wsCall.posBefore = wsPos - 1
                          /\ wsRes.exc = "WebsocketBadMessage"
                          /\ wsRes.data = (IF evs[n].type = "websocket.connect"
                                           THEN "connection has already been established"
                                           ELSE "empty message")

\* the generator yielded one message and failed on the second event; asked
\* again it stopped, and the third event is still in the queue
C20_Witness ==
    /\ itState = "failed"
    /\ Len(itYield) = 1
    /\ itStart = 0
    /\ wsPos = 2
    /\ Len(wsIn) = 3
    /\ wsRes.exc = "StopAsyncIteration"

====
